---- MODULE Spec2Model ----
(***************************************************************************)
(* Job tracking over Server-Sent Events: the SSEService class, the         *)
(* browser's EventSource objects it owns, the credential kept in           *)
(* localStorage and the page-lifecycle hooks that tear the service down.   *)
(***************************************************************************)
EXTENDS Integers, Sequences, FiniteSets, TLC

\* ------------------------------------------------------------------ bounds
NumJobs == 2        \* job ids handed to connectToJob
MaxChannels == 2    \* EventSource objects created during one page session
MaxTimers == 2      \* redirect timers pending at the same time
MaxWords == 2       \* words of an error text given to the heuristic

Jobs == 1..NumJobs

\* ------------------------------------------------- EventSource.readyState
CONNECTING == 0
OPEN == 1
CLOSED == 2

\* ---------------------------------------------------------------- values
NULL == "null"

HandlerNames == {"onConnect", "onProgress", "onComplete", "onError"}

\* The handler objects callers pass: all four callbacks, or none ({}).
HandlerChoices == {HandlerNames, {}}

\* What a callback does once it is invoked.
CbOutcomes == {"returns", "throws"}

\* localStorage[USER_DATA]: absent, not JSON, JSON without a token object,
\* an empty access token, a usable access token.
Missing == [stored |-> FALSE, json |-> FALSE, token |-> FALSE, accessToken |-> ""]
Garbage == [stored |-> TRUE, json |-> FALSE, token |-> FALSE, accessToken |-> ""]
NoToken == [stored |-> TRUE, json |-> TRUE, token |-> FALSE, accessToken |-> ""]
EmptyToken == [stored |-> TRUE, json |-> TRUE, token |-> TRUE, accessToken |-> ""]
Valid == [stored |-> TRUE, json |-> TRUE, token |-> TRUE, accessToken |-> "abc"]

UserDataValues == {Missing, Garbage, NoToken, EmptyToken, Valid}

\* What the model's environment writes into the store.
StoredValues == {Garbage, Valid}

\* Error texts, as sequences of words; Lower is String.prototype.toLowerCase
\* word by word.
Words == {"Unauthorized:", "token", "Token", "expired", "INVALID", "Job", "failed", "401"}

Lower(w) ==
    CASE w = "Unauthorized:" -> "unauthorized:"
      [] w = "Token" -> "token"
      [] w = "INVALID" -> "invalid"
      [] w = "Job" -> "job"
      [] OTHER -> w

\* needle is a substring of the lower-case word lw
WordIncludes(lw, needle) ==
    \/ lw = needle
    \/ lw = "unauthorized:" /\ needle = "unauthorized"

\* String.prototype.includes on a text: no needle used here holds a space
Includes(text, needle) ==
    \E i \in 1..Len(text) : WordIncludes(text[i], needle)

toLowerCase(text) == [i \in 1..Len(text) |-> Lower(text[i])]

\* JSON values carried by events. An absent or falsy field is <<>>. nonString
\* names the fields whose value is truthy and not a string (a number, an
\* object); such a field holds the words of the value's text.
ObjWith(tag, error, message, nonString) ==
    [t |-> "object", tag |-> tag, error |-> error, message |-> message,
     nonString |-> nonString]

Obj(tag, error, message) == ObjWith(tag, error, message, {})

NonObject == [t |-> "null", tag |-> "null", error |-> <<>>, message |-> <<>>,
              nonString |-> {}]

Plain1 == Obj("p1", <<>>, <<>>)
Plain2 == Obj("p2", <<>>, <<>>)
JobFailed == Obj("e1", <<"Job", "failed">>, <<>>)
UnauthorizedTokenExpired == Obj("e2", <<"Unauthorized:", "token", "expired">>, <<>>)
TokenInvalid == Obj("e3", <<>>, <<"Token", "INVALID">>)

DataPayloads == {Plain1, Plain2}
ErrorPayloads == {JobFailed, UnauthorizedTokenExpired}

\* event.data: the text of a JSON value, or something JSON.parse rejects
\* (malformed text, or undefined on a plain Event).
Text(v) == [valid |-> TRUE, value |-> v]
NoData == [valid |-> FALSE, value |-> NonObject]

JSONparse(d) == [ok |-> d.valid, value |-> d.value]

\* ------------------------------------------------------------------ state
VARIABLES
    userData,            \* localStorage[USER_DATA]
    channels,            \* the EventSource objects created so far
    activeConnections,   \* Map jobId -> EventSource (index into channels)
    eventHandlers,       \* Map jobId -> handlers
    redirectTimers,      \* pending setTimeout(() => location.href = '/')
    calls,               \* what the last step invoked, in order
    last,                \* the last step taken
    returned             \* what the last step returned, when it was a query

vars == <<userData, channels, activeConnections, eventHandlers, redirectTimers, calls, last,
          returned>>

\* returned after a step that is no query
NoReturn == [fn |-> "none"]

EmptyMap == [x \in {} |-> 0]

MapDelete(m, k) == [x \in (DOMAIN m) \ {k} |-> m[x]]

MapSet(m, k, v) == [x \in (DOMAIN m) \cup {k} |-> IF x = k THEN v ELSE m[x]]

\* The service and what it touches, as one value the methods transform.
Cur ==
    [ac |-> activeConnections, eh |-> eventHandlers, ch |-> channels,
     ud |-> userData, timers |-> redirectTimers, calls |-> <<>>, threw |-> FALSE,
     ret |-> NoReturn]

Commit(S) ==
    /\ activeConnections' = S.ac
    /\ eventHandlers' = S.eh
    /\ channels' = S.ch
    /\ userData' = S.ud
    /\ redirectTimers' = S.timers
    /\ calls' = S.calls
    /\ returned' = S.ret

NoArg == [t |-> "none", tag |-> "none", error |-> <<>>, message |-> <<>>,
          nonString |-> {}]

\* ------------------------------------------------------------- credential
\* Faulty variant: an empty access token is returned as it is.
getAuthToken_noEmptyCheck(ud) ==
    IF ~ud.stored THEN NULL
    ELSE IF ~ud.json THEN NULL
    ELSE IF ~ud.token THEN NULL
    ELSE ud.accessToken

getAuthToken(ud) ==
    IF ~ud.stored THEN NULL
    ELSE IF ~ud.json THEN NULL
    ELSE IF ~ud.token THEN NULL
    ELSE IF ud.accessToken = "" THEN NULL
    ELSE ud.accessToken

isAuthenticated(ud) == getAuthToken(ud) # NULL

isTokenExpiredError(S) == ~isAuthenticated(S.ud)

\* What a call ends in: a value, or an exception (value is then unused).
Returns(v) == [threw |-> FALSE, value |-> v]
Throws == [threw |-> TRUE, value |-> FALSE]

\* The field `data.error || data.message || ''` selects.
errorField(data) ==
    IF data.error # <<>> THEN "error"
    ELSE IF data.message # <<>> THEN "message"
    ELSE "neither"

\* Only a string has toLowerCase: on another truthy value the call is a
\* TypeError.
isTokenExpiredInEventData(data) ==
    IF data.t # "object" THEN Returns(FALSE)
    ELSE IF errorField(data) \in data.nonString THEN Throws
    ELSE LET error == IF errorField(data) = "error" THEN data.error ELSE data.message
             errorLower == toLowerCase(error)
         IN  Returns(\/ /\ Includes(errorLower, "token")
                        /\ (Includes(errorLower, "expired") \/ Includes(errorLower, "invalid"))
                     \/ Includes(errorLower, "unauthorized")
                     \/ Includes(errorLower, "401"))


\* ------------------------------------------------------------ invocations
ConnectionError == [t |-> "connection_error", tag |-> "Connection lost or failed",
                    error |-> <<>>, message |-> <<>>, nonString |-> {}]

ConnectionFailed == [t |-> "connection_failed", tag |-> "User not authenticated",
                     error |-> <<>>, message |-> <<>>, nonString |-> {}]

NoState == 0 - 1

\* One entry of calls. auth is isAuthenticated() when the call starts,
\* scheduled the number of redirect timers the call sets, and tracked whether
\* the registry holds chan for job when the call starts.
Call(fn, job, chan, arg, rs, out, auth, scheduled, tracked) ==
    [fn |-> fn, job |-> job, chan |-> chan, arg |-> arg, readyState |-> rs,
     outcome |-> out, auth |-> auth, scheduled |-> scheduled, tracked |-> tracked]

\* if (handlers.fn) { handlers.fn(arg) }
CallIfPresent(S, h, job, chan, fn, arg, rs, out) ==
    IF fn \in h
    THEN [S EXCEPT !.calls = Append(@, Call(fn, job, chan, arg, rs, out,
                                             isAuthenticated(S.ud), 0,
                                             job \in DOMAIN S.ac /\ S.ac[job] = chan)),
                   !.threw = (out = "throws")]
    ELSE S

Throw(S) == [S EXCEPT !.threw = TRUE]

\* ---------------------------------------------------------------- methods
\* Faulty variant: the handlers entry is left behind.
disconnectJob_keepsHandlers(S, jobId) ==
    IF jobId \in DOMAIN S.ac
    THEN [S EXCEPT !.ch[S.ac[jobId]].readyState = CLOSED,
                   !.ac = MapDelete(@, jobId)]
    ELSE S

\* Faulty variant: the entries are dropped and the EventSource is left to the
\* browser, which goes on reconnecting it.
disconnectJob_noClose(S, jobId) ==
    IF jobId \in DOMAIN S.ac
    THEN [S EXCEPT !.ac = MapDelete(@, jobId),
                   !.eh = MapDelete(@, jobId)]
    ELSE S

disconnectJob(S, jobId) ==
    IF jobId \in DOMAIN S.ac
    THEN [S EXCEPT !.ch[S.ac[jobId]].readyState = CLOSED,
                   !.ac = MapDelete(@, jobId),
                   !.eh = MapDelete(@, jobId)]
    ELSE S

\* Faulty variant: the maps are cleared and the connections are not closed.
disconnectAll_clearsOnly(S) ==
    [S EXCEPT !.ac = EmptyMap, !.eh = EmptyMap]

\* Faulty variant: the connections are closed and the maps are not cleared.
disconnectAll_closesOnly(S) ==
    [S EXCEPT !.ch = [c \in DOMAIN S.ch |->
                        IF \E j \in DOMAIN S.ac : S.ac[j] = c
                        THEN [S.ch[c] EXCEPT !.readyState = CLOSED]
                        ELSE S.ch[c]]]

disconnectAll(S) ==
    [S EXCEPT !.ch = [c \in DOMAIN S.ch |->
                        IF \E j \in DOMAIN S.ac : S.ac[j] = c
                        THEN [S.ch[c] EXCEPT !.readyState = CLOSED]
                        ELSE S.ch[c]],
              !.ac = EmptyMap,
              !.eh = EmptyMap]

\* Faulty variant: the hook leaves the cleanup for later.
handlePageUnload_deferred(S) == S

handlePageUnload(S) == disconnectAll(S)

isConnected(S, jobId) == jobId \in DOMAIN S.ac

\* Faulty variant: the keys of the handlers map are listed.
getActiveJobs_ofHandlers(S) == DOMAIN S.eh

getActiveJobs(S) == DOMAIN S.ac

getReadyStateText(readyState) ==
    CASE readyState = CONNECTING -> "Connecting"
      [] readyState = OPEN -> "Open"
      [] readyState = CLOSED -> "Closed"
      [] OTHER -> "Unknown"

\* The object getConnectionState returns; without an entry readyState is
\* null (NoState) and there is no readyStateText.
ConnectionState(connected, readyState, readyStateText) ==
    [connected |-> connected, readyState |-> readyState,
     readyStateText |-> readyStateText]

\* Faulty variant: connected tells whether the transport is open.
getConnectionState_byTransport(S, jobId) ==
    [S EXCEPT !.ret =
        [fn |-> "getConnectionState", arg |-> jobId,
         result |->
            IF jobId \notin DOMAIN S.ac
            THEN ConnectionState(FALSE, NoState, "undefined")
            ELSE ConnectionState(S.ch[S.ac[jobId]].readyState = OPEN,
                                 S.ch[S.ac[jobId]].readyState,
                                 getReadyStateText(S.ch[S.ac[jobId]].readyState))]]

getConnectionState(S, jobId) ==
    [S EXCEPT !.ret =
        [fn |-> "getConnectionState", arg |-> jobId,
         result |->
            IF jobId \notin DOMAIN S.ac
            THEN ConnectionState(FALSE, NoState, "undefined")
            ELSE ConnectionState(TRUE, S.ch[S.ac[jobId]].readyState,
                                 getReadyStateText(S.ch[S.ac[jobId]].readyState))]]

handleTokenExpiration(S) ==
    LET S1 == disconnectAll(S)
    IN  [S1 EXCEPT !.ud = Missing,
                   !.timers = @ + 1,
                   !.calls = Append(@, Call("handleTokenExpiration", 0, 0, NoArg, NoState,
                                            "returns", isAuthenticated(S.ud), 1, FALSE))]

\* Faulty variant: the connection the job already has is not closed first.
connectToJob_keepsOld(S, jobId, handlers, out) ==
    IF ~isAuthenticated(S.ud)
    THEN Throw(CallIfPresent(S, handlers, jobId, 0, "onError", ConnectionFailed,
                             NoState, out))
    ELSE LET c == Len(S.ch) + 1
         IN  [S EXCEPT !.ch = Append(@, [jobId |-> jobId, readyState |-> CONNECTING,
                                         handlers |-> handlers]),
                       !.ac = MapSet(@, jobId, c),
                       !.eh = MapSet(@, jobId, handlers)]

\* Faulty variant: the old connection is closed before the credential is checked.
connectToJob_disconnectsFirst(S, jobId, handlers, out) ==
    LET S1 == disconnectJob(S, jobId)
    IN  IF ~isAuthenticated(S1.ud)
        THEN Throw(CallIfPresent(S1, handlers, jobId, 0, "onError", ConnectionFailed,
                                 NoState, out))
        ELSE LET c == Len(S1.ch) + 1
             IN  [S1 EXCEPT !.ch = Append(@, [jobId |-> jobId, readyState |-> CONNECTING,
                                              handlers |-> handlers]),
                            !.ac = MapSet(@, jobId, c),
                            !.eh = MapSet(@, jobId, handlers)]

\* Faulty variant: the connection is made without asking for a credential.
connectToJob_noAuthCheck(S, jobId, handlers, out) ==
    LET S1 == disconnectJob(S, jobId)
        c == Len(S1.ch) + 1
    IN  [S1 EXCEPT !.ch = Append(@, [jobId |-> jobId, readyState |-> CONNECTING,
                                     handlers |-> handlers]),
                   !.ac = MapSet(@, jobId, c),
                   !.eh = MapSet(@, jobId, handlers)]

\* Faulty variant: the catch block reports the failure and does not rethrow.
connectToJob_swallows(S, jobId, handlers, out) ==
    IF ~isAuthenticated(S.ud)
    THEN CallIfPresent(S, handlers, jobId, 0, "onError", ConnectionFailed, NoState, out)
    ELSE LET S1 == disconnectJob(S, jobId)
             c == Len(S1.ch) + 1
         IN  [S1 EXCEPT !.ch = Append(@, [jobId |-> jobId, readyState |-> CONNECTING,
                                          handlers |-> handlers]),
                        !.ac = MapSet(@, jobId, c),
                        !.eh = MapSet(@, jobId, handlers)]

connectToJob(S, jobId, handlers, out) ==
    IF ~isAuthenticated(S.ud)
    THEN Throw(CallIfPresent(S, handlers, jobId, 0, "onError", ConnectionFailed,
                             NoState, out))
    ELSE LET S1 == disconnectJob(S, jobId)
             c == Len(S1.ch) + 1
         IN  [S1 EXCEPT !.ch = Append(@, [jobId |-> jobId, readyState |-> CONNECTING,
                                          handlers |-> handlers]),
                        !.ac = MapSet(@, jobId, c),
                        !.eh = MapSet(@, jobId, handlers)]

\* A callback runs. One that "retracks" calls connectToJob for its own job,
\* with the same callbacks, before it returns; connectToJob has no await, so
\* the new channel is registered when the callback returns.
Invoke(S, h, job, chan, fn, arg, rs, out) ==
    LET S1 == CallIfPresent(S, h, job, chan, fn, arg, rs, out)
    IN  IF fn \in h /\ out = "retracks"
        THEN [connectToJob(S1, job, h, "returns") EXCEPT !.threw = FALSE]
        ELSE S1

\* -------------------------------------------------- listeners of a channel
\* Each is the listener connectToJob attached to channel c; jobId and
\* handlers are the ones its closure captured.
connectedListener(S, c, data, out) ==
    LET p == JSONparse(data)
    IN  IF ~p.ok THEN Throw(S)
        ELSE Invoke(S, S.ch[c].handlers, S.ch[c].jobId, c, "onConnect",
                           p.value, NoState, out)

\* Faulty variant: a progress update ends the tracking, as a completion does.
progressListener_terminal(S, c, data, out) ==
    LET p == JSONparse(data)
    IN  IF ~p.ok THEN Throw(S)
        ELSE LET S1 == Invoke(S, S.ch[c].handlers, S.ch[c].jobId, c,
                                     "onProgress", p.value, NoState, out)
             IN  IF S1.threw THEN S1 ELSE disconnectJob(S1, S.ch[c].jobId)

progressListener(S, c, data, out) ==
    LET p == JSONparse(data)
    IN  IF ~p.ok THEN Throw(S)
        ELSE Invoke(S, S.ch[c].handlers, S.ch[c].jobId, c, "onProgress",
                           p.value, NoState, out)

\* Faulty variant: the connection is kept after completion.
completeListener_noCleanup(S, c, data, out) ==
    LET p == JSONparse(data)
    IN  IF ~p.ok THEN Throw(S)
        ELSE Invoke(S, S.ch[c].handlers, S.ch[c].jobId, c, "onComplete",
                           p.value, NoState, out)

completeListener(S, c, data, out) ==
    LET p == JSONparse(data)
    IN  IF ~p.ok THEN Throw(S)
        ELSE LET S1 == Invoke(S, S.ch[c].handlers, S.ch[c].jobId, c,
                                     "onComplete", p.value, NoState, out)
             IN  IF S1.threw THEN S1 ELSE disconnectJob(S1, S.ch[c].jobId)

errorListener(S, c, data, out) ==
    LET p == JSONparse(data)
    IN  IF ~p.ok THEN Throw(S)
        ELSE IF isTokenExpiredInEventData(p.value).threw THEN Throw(S)
        ELSE IF isTokenExpiredInEventData(p.value).value THEN handleTokenExpiration(S)
        ELSE LET S1 == Invoke(S, S.ch[c].handlers, S.ch[c].jobId, c,
                                     "onError", p.value, NoState, out)
             IN  IF S1.threw THEN S1 ELSE disconnectJob(S1, S.ch[c].jobId)

\* Faulty variant: no check for an expired session.
onerror_noExpiryCheck(S, c, out) ==
    LET S1 == Invoke(S, S.ch[c].handlers, S.ch[c].jobId, c, "onError",
                            ConnectionError, S.ch[c].readyState, out)
    IN  IF S1.threw THEN S1 ELSE disconnectJob(S1, S.ch[c].jobId)

\* Faulty variant: the connection is kept after a connection error.
onerror_noCleanup(S, c, out) ==
    IF S.ch[c].readyState = CLOSED /\ isTokenExpiredError(S)
    THEN handleTokenExpiration(S)
    ELSE Invoke(S, S.ch[c].handlers, S.ch[c].jobId, c, "onError",
                       ConnectionError, S.ch[c].readyState, out)

onerror(S, c, out) ==
    IF S.ch[c].readyState = CLOSED /\ isTokenExpiredError(S)
    THEN handleTokenExpiration(S)
    ELSE LET S1 == Invoke(S, S.ch[c].handlers, S.ch[c].jobId, c, "onError",
                                 ConnectionError, S.ch[c].readyState, out)
         IN  IF S1.threw THEN S1 ELSE disconnectJob(S1, S.ch[c].jobId)

\* An event of type 'error' dispatched at channel c reaches both listeners of
\* that type, in the order they were attached: the listener added with
\* addEventListener('error'), then the onerror handler. An exception in the
\* first is reported and does not stop the second.
dispatchError(S, c, data, out1, out2) ==
    LET S1 == errorListener(S, c, data, out1)
    IN  onerror([S1 EXCEPT !.threw = FALSE], c, out2)


\* ------------------------------------------------------------------ steps
\* The record kept in last: the operation, the job and channel it was about,
\* the event data it carried, the channel's readyState when its listeners
\* ran, whether the operation ended in an exception, and, from the moment it
\* started, isAuthenticated() and the registry.
Registered(jobId) ==
    IF jobId \in DOMAIN activeConnections THEN activeConnections[jobId] ELSE 0

Step(op, job, chan, data, rs, threw) ==
    [op |-> op, job |-> job, chan |-> chan, data |-> data, rs |-> rs, threw |-> threw,
     auth |-> isAuthenticated(userData), pre |-> activeConnections]

Channels == DOMAIN channels

\* Job ids are opaque and interchangeable: callers take them in order, a new
\* id being the one after the ids in use on this page.
JobsSeen == {channels[c].jobId : c \in Channels}

NextJobs == {j \in Jobs : \A i \in 1..(j - 1) : i \in JobsSeen}

\* The outcomes to consider for callback fn of a handlers object: an absent
\* callback is never run.
Outcomes(handlers, fn) == IF fn \in handlers THEN CbOutcomes ELSE {"returns"}

\* A caller's onComplete or onError may also retry the job from inside the
\* callback; it does so while it has a session.
TerminalOutcomes(handlers, fn) ==
    IF fn \in handlers /\ isAuthenticated(userData)
    THEN CbOutcomes \cup {"retracks"}
    ELSE Outcomes(handlers, fn)

EventData(payloads) == {Text(p) : p \in payloads} \cup {NoData}

Init ==
    /\ userData \in {Valid, Missing}
    /\ channels = <<>>
    /\ activeConnections = EmptyMap
    /\ eventHandlers = EmptyMap
    /\ redirectTimers = 0
    /\ calls = <<>>
    /\ last = Step("load", 0, 0, NoData, NoState, FALSE)
    /\ returned = NoReturn

\* A caller (ChatManager.trackJobWithSSE) starts tracking a job.
ConnectToJob ==
    \E jobId \in NextJobs, handlers \in HandlerChoices :
      \E out \in Outcomes(handlers, "onError") :
        /\ isAuthenticated(userData) => Len(channels) < MaxChannels /\ out = "returns"
        /\ LET S == connectToJob(Cur, jobId, handlers, out)
           IN  /\ Commit(S)
               /\ last' = Step("connectToJob", jobId,
                               IF S.threw THEN 0 ELSE Len(S.ch), NoData, NoState, S.threw)

DisconnectJob ==
    \E jobId \in NextJobs :
        /\ Commit(disconnectJob(Cur, jobId))
        /\ last' = Step("disconnectJob", jobId, Registered(jobId), NoData, NoState, FALSE)

\* beforeunload / pagehide
HandlePageUnload ==
    /\ Commit(handlePageUnload(Cur))
    /\ last' = Step("handlePageUnload", 0, 0, NoData, NoState, FALSE)

\* The browser establishes the stream: readyState becomes OPEN ('open' has
\* no listener).
ChannelOpens ==
    \E c \in Channels :
        /\ channels[c].readyState = CONNECTING
        /\ channels' = [channels EXCEPT ![c].readyState = OPEN]
        /\ calls' = <<>>
        /\ last' = Step("open", channels[c].jobId, c, NoData, OPEN, FALSE)
        /\ returned' = NoReturn
        /\ UNCHANGED <<userData, activeConnections, eventHandlers, redirectTimers>>

\* The server sends a named event on an open stream. A closed EventSource
\* dispatches nothing.
ConnectedEvent ==
    \E c \in Channels, data \in EventData(DataPayloads) :
      \E out \in Outcomes(channels[c].handlers, "onConnect") :
        /\ channels[c].readyState = OPEN
        /\ LET S == connectedListener(Cur, c, data, out)
           IN  /\ Commit(S)
               /\ last' = Step("connected", channels[c].jobId, c, data, OPEN, S.threw)

ProgressEvent ==
    \E c \in Channels, data \in EventData(DataPayloads) :
      \E out \in Outcomes(channels[c].handlers, "onProgress") :
        /\ channels[c].readyState = OPEN
        /\ LET S == progressListener(Cur, c, data, out)
           IN  /\ Commit(S)
               /\ last' = Step("progress", channels[c].jobId, c, data, OPEN, S.threw)

CompleteOn(c) ==
    \E data \in EventData(DataPayloads) :
      \E out \in TerminalOutcomes(channels[c].handlers, "onComplete") :
        /\ channels[c].readyState = OPEN
        /\ LET S == completeListener(Cur, c, data, out)
           IN  /\ Len(S.ch) <= MaxChannels
               /\ Commit(S)
               /\ last' = Step("complete", channels[c].jobId, c, data, OPEN, S.threw)

CompleteEvent == \E c \in Channels : CompleteOn(c)

\* The server sends an event named 'error'.
ErrorOn(c) ==
    \E data \in EventData(ErrorPayloads) :
      \E out1, out2 \in TerminalOutcomes(channels[c].handlers, "onError") :
        /\ channels[c].readyState = OPEN
        /\ LET S == dispatchError(Cur, c, data, out1, out2)
           IN  /\ S.timers <= MaxTimers
               /\ Len(S.ch) <= MaxChannels
               /\ Commit(S)
               /\ last' = Step("error", channels[c].jobId, c, data, OPEN, S.threw)

ErrorEvent == \E c \in Channels : ErrorOn(c)

\* The transport fails. The browser either re-establishes the connection
\* (readyState CONNECTING) or fails it (readyState CLOSED), then fires a
\* plain Event of type 'error', which carries no data.
TransportErrorOn(c) ==
    \E rs \in {CONNECTING, CLOSED} :
      \E out1, out2 \in TerminalOutcomes(channels[c].handlers, "onError") :
        /\ channels[c].readyState # CLOSED
        /\ LET S0 == [Cur EXCEPT !.ch[c].readyState = rs]
               S == dispatchError(S0, c, NoData, out1, out2)
           IN  /\ S.timers <= MaxTimers
               /\ Len(S.ch) <= MaxChannels
               /\ Commit(S)
               /\ last' = Step("transport_error", channels[c].jobId, c, NoData, rs, S.threw)

TransportError == \E c \in Channels : TransportErrorOn(c)

\* ApiService.handleAuthError: a REST request met an expired session.
HandleAuthError ==
    /\ redirectTimers < MaxTimers
    /\ userData' = Missing
    /\ redirectTimers' = redirectTimers + 1
    /\ calls' = <<>>
    /\ last' = Step("handleAuthError", 0, 0, NoData, NoState, FALSE)
    /\ returned' = NoReturn
    /\ UNCHANGED <<channels, activeConnections, eventHandlers>>

\* The login flow writes the stored item. It runs on the login page, so not
\* while this page is waiting for a redirect to it.
StoreUserData ==
    \E v \in StoredValues :
        /\ redirectTimers = 0
        /\ userData # v
        /\ userData' = v
        /\ calls' = <<>>
        /\ last' = Step("setItem", 0, 0, NoData, NoState, FALSE)
        /\ returned' = NoReturn
        /\ UNCHANGED <<channels, activeConnections, eventHandlers, redirectTimers>>

\* A redirect timer fires: the page is left, and the next page starts with a
\* newly constructed service. localStorage outlives the page.
Redirect ==
    /\ redirectTimers > 0
    /\ channels' = <<>>
    /\ activeConnections' = EmptyMap
    /\ eventHandlers' = EmptyMap
    /\ redirectTimers' = 0
    /\ calls' = <<>>
    /\ last' = Step("load", 0, 0, NoData, NoState, FALSE)
    /\ returned' = NoReturn
    /\ UNCHANGED userData

Next ==
    \/ ConnectToJob
    \/ DisconnectJob
    \/ HandlePageUnload
    \/ ChannelOpens
    \/ ConnectedEvent
    \/ ProgressEvent
    \/ CompleteEvent
    \/ ErrorEvent
    \/ TransportError
    \/ HandleAuthError
    \/ StoreUserData
    \/ Redirect

Spec == Init /\ [][Next]_vars

\* ------------------------------------------------------ a page left alone
\* The caller tracks its jobs when the page has loaded and makes no track
\* call afterwards, from a callback or otherwise; every channel that is not
\* closed goes on delivering terminal events or failing.
LiveNext ==
    /\ Next
    /\ last'.op = "connectToJob" => last.op \in {"load", "connectToJob", "open"}
    /\ \A i \in DOMAIN calls' : calls'[i].outcome # "retracks"

TerminalOn(c) ==
    /\ c \in Channels
    /\ TransportErrorOn(c) \/ CompleteOn(c) \/ ErrorOn(c)
    /\ \A i \in DOMAIN calls' : calls'[i].outcome # "retracks"

LiveSpec ==
    Init /\ [][LiveNext]_vars /\ \A c \in 1..MaxChannels : WF_vars(TerminalOn(c))

\* ------------------------------------------------- the heuristic, on its own
\* isTokenExpiredInEventData applied to the values JSON.parse can hand it:
\* a value that is no object, or an object whose error and message are
\* absent, strings of up to MaxWords words, or truthy values of another type.
Texts == UNION {[1..n -> Words] : n \in 0..MaxWords}

Messages == {<<>>, <<"401">>, <<"Token", "INVALID">>}

\* an absent field has no type
NonStringChoices(e, m) ==
    {x \in SUBSET {"error", "message"} : /\ "error" \in x => e # <<>>
                                         /\ "message" \in x => m # <<>>}

HeuristicInputs ==
    {NonObject} \cup
    UNION {{ObjWith("h", e, m, ns) : ns \in NonStringChoices(e, m)} :
              e \in Texts, m \in Messages}

IsTokenExpiredInEventData ==
    \E data \in HeuristicInputs :
        /\ returned = NoReturn
        /\ returned' = [fn |-> "isTokenExpiredInEventData", arg |-> data,
                        result |-> isTokenExpiredInEventData(data)]
        /\ UNCHANGED <<userData, channels, activeConnections, eventHandlers,
                       redirectTimers, calls, last>>

HeuristicSpec == Init /\ [][IsTokenExpiredInEventData]_vars


\* ------------------------------------------------- the queries, on their own
\* getConnectionState and isAuthenticated asked in the states a page can be
\* in: any stored item; channels created by connectToJob, of which a job's
\* registered one is its newest and the others were closed by disconnectJob.
\* A registered channel is found closed only where an onError callback raised
\* before disconnectJob was reached.
ChannelRecords ==
    [jobId : Jobs, readyState : {CONNECTING, OPEN, CLOSED}, handlers : HandlerChoices]

RegistryWellFormed ==
    /\ \A jobId \in DOMAIN activeConnections :
          /\ activeConnections[jobId] \in DOMAIN channels
          /\ channels[activeConnections[jobId]].jobId = jobId
          /\ \A c \in DOMAIN channels :
                channels[c].jobId = jobId => c <= activeConnections[jobId]
    /\ \A c \in DOMAIN channels :
          IF Registered(channels[c].jobId) = c
          THEN channels[c].readyState = CLOSED => "onError" \in channels[c].handlers
          ELSE channels[c].readyState = CLOSED
    /\ eventHandlers = [jobId \in DOMAIN activeConnections |->
                           channels[activeConnections[jobId]].handlers]

QueryInit ==
    /\ userData \in UserDataValues
    /\ channels \in UNION {[1..n -> ChannelRecords] : n \in 0..MaxChannels}
    /\ activeConnections \in UNION {[T -> DOMAIN channels] : T \in SUBSET Jobs}
    /\ eventHandlers = [jobId \in DOMAIN activeConnections |->
                           channels[activeConnections[jobId]].handlers]
    /\ RegistryWellFormed
    /\ redirectTimers = 0
    /\ calls = <<>>
    /\ last = Step("load", 0, 0, NoData, NoState, FALSE)
    /\ returned = NoReturn

\* A diagnostic asks for the state of a job's connection.
GetConnectionState ==
    \E jobId \in Jobs :
        /\ Commit(getConnectionState(Cur, jobId))
        /\ last' = Step("getConnectionState", jobId, Registered(jobId), NoData, NoState,
                        FALSE)

IsAuthenticated ==
    /\ returned' = [fn |-> "isAuthenticated", arg |-> userData,
                    result |-> Returns(isAuthenticated(userData))]
    /\ calls' = <<>>
    /\ last' = Step("isAuthenticated", 0, 0, NoData, NoState, FALSE)
    /\ UNCHANGED <<userData, channels, activeConnections, eventHandlers, redirectTimers>>

QueryNext ==
    \/ GetConnectionState
    \/ IsAuthenticated

QuerySpec == QueryInit /\ [][QueryNext]_vars


\* ----------------------------------------------------------------- claims
Expiries == {i \in DOMAIN calls : calls[i].fn = "handleTokenExpiration"}

OnErrors == {i \in DOMAIN calls : calls[i].fn = "onError"}

AllReturned == \A i \in DOMAIN calls : calls[i].outcome = "returns"

NonClosed(jobId) ==
    {c \in Channels : channels[c].jobId = jobId /\ channels[c].readyState # CLOSED}

\* C1: whatever has happened, a job has at most one channel that is not
\* closed; and after a successful connectToJob(jobId) the registry holds the
\* new channel for jobId, that channel is the job's only non-closed one, and
\* the channel registered for jobId before the call is closed.
C1_AtMostOneChannelPerJob ==
    /\ \A jobId \in Jobs : Cardinality(NonClosed(jobId)) <= 1
    /\ (last.op = "connectToJob" /\ ~last.threw) =>
          /\ last.job \in DOMAIN activeConnections
          /\ activeConnections[last.job] = last.chan
          /\ NonClosed(last.job) = {last.chan}
          /\ last.job \in DOMAIN last.pre =>
                /\ last.pre[last.job] # last.chan
                /\ channels[last.pre[last.job]].readyState = CLOSED

\* connectToJob replaced the channel of a job that was already tracked
C1_Witness ==
    /\ last.op = "connectToJob"
    /\ ~last.threw
    /\ last.job \in DOMAIN last.pre

\* C2: connectToJob without a usable credential ends in an exception, creates
\* no EventSource and leaves both registry maps and every channel as they
\* were, an entry the job already had included.
C2_UnauthenticatedTrackChangesNothing ==
    [][(last'.op = "connectToJob" /\ ~isAuthenticated(userData)) =>
          /\ last'.threw
          /\ channels' = channels
          /\ activeConnections' = activeConnections
          /\ eventHandlers' = eventHandlers]_vars

\* connectToJob failed for a job that was, and still is, tracked
C2_Witness ==
    /\ last.op = "connectToJob"
    /\ last.threw
    /\ ~last.auth
    /\ last.job \in DOMAIN last.pre
    /\ last.job \in DOMAIN activeConnections
    /\ channels[activeConnections[last.job]].readyState # CLOSED

C4_ExpiryPayloadHandledOnce ==
    (last.op = "error" /\ last.data.valid
        /\ isTokenExpiredInEventData(last.data.value).value) =>
        /\ OnErrors = {}
        /\ Cardinality(Expiries) = 1
        /\ activeConnections = EmptyMap

C6_ExpiryIdempotent ==
    \A i, k \in Expiries : i < k => calls[k].scheduled = 0

\* C7: a non-expiry application error event, the callback returning, makes
\* exactly one onError call, with the server's payload, and none of type
\* connection_error; the job is untracked afterwards.
C7_ApplicationErrorReportedOnce ==
    (last.op = "error" /\ last.data.valid
        /\ ~isTokenExpiredInEventData(last.data.value).value
        /\ "onError" \in channels[last.chan].handlers
        /\ AllReturned) =>
        /\ Cardinality(OnErrors) = 1
        /\ \A i \in OnErrors : calls[i].arg = last.data.value
        /\ ~isConnected(Cur, last.job)

C9_ExpiryTearsDownEverything ==
    (Expiries # {}) =>
        /\ \A jobId \in DOMAIN last.pre : channels[last.pre[jobId]].readyState = CLOSED
        /\ \A c \in Channels : channels[c].readyState = CLOSED
        /\ activeConnections = EmptyMap
        /\ eventHandlers = EmptyMap
        /\ userData = Missing
        /\ ~isAuthenticated(userData)
        /\ redirectTimers >= 1

\* expiry reported on one job's channel while another job was tracked too
C9_Witness ==
    /\ Expiries # {}
    /\ Cardinality(DOMAIN last.pre) >= 2

\* C10: disconnectJob on a job without an entry throws nothing and changes
\* neither the registry nor any channel; on a tracked job it closes that
\* job's channel, removes its entry from both maps and touches nothing else.
\* (So a second disconnectJob finds no entry and changes nothing.)
C10_DisconnectJobIdempotent ==
    [][(last'.op = "disconnectJob") =>
          /\ ~last'.threw
          /\ userData' = userData /\ redirectTimers' = redirectTimers
          /\ IF last'.job \in DOMAIN activeConnections
             THEN /\ channels' = [channels EXCEPT
                                     ![activeConnections[last'.job]].readyState = CLOSED]
                  /\ activeConnections' = MapDelete(activeConnections, last'.job)
                  /\ eventHandlers' = MapDelete(eventHandlers, last'.job)
             ELSE /\ channels' = channels
                  /\ activeConnections' = activeConnections
                  /\ eventHandlers' = eventHandlers]_vars

\* disconnectJob ran on a job that had just been disconnected
C10_Witness ==
    /\ last.op = "disconnectJob"
    /\ last.job \notin DOMAIN last.pre
    /\ \E c \in Channels : channels[c].jobId = last.job /\ channels[c].readyState = CLOSED
    /\ activeConnections # EmptyMap


\* C11: after disconnectAll (run by the page hooks and by the expiry
\* reaction), whatever the registry held, getActiveJobs() is empty and every
\* channel that was registered is closed.
C11_DisconnectAllEmptiesRegistry ==
    (last.op = "handlePageUnload" \/ Expiries # {}) =>
        /\ getActiveJobs(Cur) = {}
        /\ \A jobId \in DOMAIN last.pre : channels[last.pre[jobId]].readyState = CLOSED

\* disconnectAll ran with two jobs registered
C11_Witness ==
    /\ last.op = "handlePageUnload"
    /\ Cardinality(DOMAIN last.pre) >= 2
    /\ getActiveJobs(Cur) = {}


\* C12: a connected or progress event changes neither the registry nor any
\* channel: the job stays tracked with the same open channel (so further
\* progress events can follow); with a decodable payload the matching
\* callback, if present, is invoked once with that payload.
C12_NonTerminalEvents ==
    [][(last'.op \in {"connected", "progress"}) =>
          LET c == last'.chan
              fn == IF last'.op = "connected" THEN "onConnect" ELSE "onProgress"
          IN  /\ channels' = channels
              /\ activeConnections' = activeConnections
              /\ eventHandlers' = eventHandlers
              /\ last'.job \in DOMAIN activeConnections'
              /\ activeConnections'[last'.job] = c
              /\ channels'[c].readyState = OPEN
              /\ last'.data.valid =>
                    IF fn \in channels[c].handlers
                    THEN /\ Len(calls') = 1
                         /\ calls'[1].fn = fn
                         /\ calls'[1].chan = c
                         /\ calls'[1].arg = last'.data.value
                    ELSE calls' = <<>>]_vars

\* onProgress ran with the event's payload and the job is still tracked
C12_Witness ==
    /\ last.op = "progress"
    /\ Len(calls) = 1
    /\ calls[1].fn = "onProgress"
    /\ calls[1].arg = Plain2
    /\ isConnected(Cur, last.job)
    /\ channels[last.chan].readyState = OPEN


\* C13: nothing but connectToJob(jobId) gives an untracked job a live
\* channel: whenever a step ends with a channel that is not closed for a job
\* that had no registry entry when the step began, that step is a
\* connectToJob for that job. In particular a job torn down by an application
\* error or a transport failure (also one reported while the browser was
\* reconnecting) is not reconnected.
C13_NoAutomaticRetry ==
    [][\A c \in DOMAIN channels' :
          (/\ channels'[c].readyState # CLOSED
           /\ channels'[c].jobId \notin DOMAIN activeConnections) =>
              /\ last'.op = "connectToJob"
              /\ last'.job = channels'[c].jobId]_vars

\* a transport error reported while reconnecting tore the job down and closed
\* the channel the browser was reconnecting
C13_Witness ==
    /\ last.op = "transport_error"
    /\ last.rs = CONNECTING
    /\ last.job \in DOMAIN last.pre
    /\ last.job \notin DOMAIN activeConnections
    /\ channels[last.chan].readyState = CLOSED
    /\ OnErrors # {}


\* C14: a step about job A that is not classified as session expiry (a
\* connected, progress or complete event, an application error whose payload
\* the heuristic does not classify as expiry, a transport failure while the
\* credential is valid, a connectToJob or a disconnectJob) leaves every other
\* tracked job B with the same registry entry, the same channel state and the
\* same callbacks, and invokes none of B's callbacks.
C14_JobsIndependent ==
    [][(\/ last'.op \in {"connected", "progress", "complete", "connectToJob", "disconnectJob"}
        \/ /\ last'.op = "error"
           /\ last'.data.valid
           /\ ~isTokenExpiredInEventData(last'.data.value).value
        \/ /\ last'.op = "transport_error"
           /\ last'.auth) =>
          \A B \in (DOMAIN activeConnections) \ {last'.job} :
              /\ B \in DOMAIN activeConnections'
              /\ activeConnections'[B] = activeConnections[B]
              /\ channels'[activeConnections[B]] = channels[activeConnections[B]]
              /\ B \in DOMAIN eventHandlers'
              /\ eventHandlers'[B] = eventHandlers[B]
              /\ \A i \in DOMAIN calls' : calls'[i].job # B]_vars


\* C15: no connectToJob, whatever the credential store holds, ends in an
\* exception (a rejected promise) for its caller.
C15_TrackNeverThrows ==
    last.op = "connectToJob" => ~last.threw

\* C15, amended: connectToJob ends in an exception exactly when the caller is
\* not authenticated; before rejecting it has invoked nothing but onError,
\* at most once, with a connection_failed error.
C15_TrackThrowsIffUnauthenticated ==
    last.op = "connectToJob" =>
        /\ last.threw <=> ~last.auth
        /\ last.threw =>
              /\ Len(calls) <= 1
              /\ \A i \in DOMAIN calls :
                    /\ calls[i].fn = "onError"
                    /\ calls[i].job = last.job
                    /\ calls[i].arg = ConnectionFailed
        /\ ~last.threw => calls = <<>>

\* an unauthenticated connectToJob reported connection_failed and rejected
C15_Witness ==
    /\ last.op = "connectToJob"
    /\ ~last.auth
    /\ last.threw
    /\ Len(calls) = 1
    /\ calls[1].arg = ConnectionFailed
    /\ calls[1].outcome = "returns"


\* C16: once an expiry reaction has cleared the credential, be it the
\* service's handleTokenExpiration or ApiService.handleAuthError after a REST
\* request, no job is tracked and no channel is open or connecting.
C16_ExpiryAnywhereClearsRegistry ==
    (last.op = "handleAuthError" \/ Expiries # {}) =>
        /\ activeConnections = EmptyMap
        /\ eventHandlers = EmptyMap
        /\ \A c \in Channels : channels[c].readyState = CLOSED


\* C17: the beforeunload / pagehide hook does its work before it returns:
\* after the step the registry is empty and every channel that was registered
\* is closed; it invokes no callback, raises nothing and leaves the
\* credential, the redirect timers and the other channels alone. Run on an
\* empty registry (the second of the two events) it changes nothing.
C17_PageUnloadSynchronous ==
    [][last'.op = "handlePageUnload" =>
          /\ activeConnections' = EmptyMap
          /\ eventHandlers' = EmptyMap
          /\ DOMAIN channels' = DOMAIN channels
          /\ \A c \in DOMAIN channels :
                IF \E jobId \in DOMAIN activeConnections : activeConnections[jobId] = c
                THEN channels'[c] = [channels[c] EXCEPT !.readyState = CLOSED]
                ELSE channels'[c] = channels[c]
          /\ activeConnections = EmptyMap => channels' = channels
          /\ calls' = <<>>
          /\ ~last'.threw
          /\ userData' = userData
          /\ redirectTimers' = redirectTimers]_vars

\* the hook ran again after it had emptied the registry
C17_Witness ==
    /\ last.op = "handlePageUnload"
    /\ last.pre = EmptyMap
    /\ Channels # {}
    /\ \A c \in Channels : channels[c].readyState = CLOSED
    /\ activeConnections = EmptyMap


\* C18: isTokenExpiredInEventData returns true exactly when the payload's
\* error/message string, lower-cased, contains "token" and one of "expired",
\* "invalid", or contains "unauthorized", or contains "401"; for every other
\* payload, one that is no object included, it returns false.
C18_HeuristicClassifies ==
    returned.fn = "isTokenExpiredInEventData" =>
        LET data == returned.arg
            text == toLowerCase(IF data.error # <<>> THEN data.error ELSE data.message)
            isString == data.t = "object" /\ errorField(data) \notin data.nonString
            matches == \/ /\ Includes(text, "token")
                          /\ (Includes(text, "expired") \/ Includes(text, "invalid"))
                       \/ Includes(text, "unauthorized")
                       \/ Includes(text, "401")
        IN  /\ ~returned.result.threw
            /\ returned.result.value <=> (isString /\ matches)


\* C19: getConnectionState(jobId) changes nothing: not the registry, not a
\* channel, not the credential. It returns {connected: false, readyState:
\* null} exactly when jobId has no registry entry; otherwise connected is
\* true and readyState and its text are those of the channel registered for
\* jobId, be it connecting, open or closed.
C19_DescribeReadOnly ==
    [][last'.op = "getConnectionState" =>
          LET jobId == last'.job
              r == returned'.result
          IN  /\ UNCHANGED <<userData, channels, activeConnections, eventHandlers,
                             redirectTimers>>
              /\ calls' = <<>>
              /\ returned'.fn = "getConnectionState"
              /\ returned'.arg = jobId
              /\ ~r.connected <=> jobId \notin DOMAIN activeConnections
              /\ ~r.connected => r.readyState = NoState
              /\ r.connected =>
                    /\ r.readyState = channels[activeConnections[jobId]].readyState
                    /\ r.readyStateText =
                          (CASE r.readyState = CONNECTING -> "Connecting"
                             [] r.readyState = OPEN -> "Open"
                             [] r.readyState = CLOSED -> "Closed")]_vars

\* the state of a job whose channel is still connecting was asked for
C19_Witness ==
    /\ last.op = "getConnectionState"
    /\ last.job \in DOMAIN activeConnections
    /\ returned.result.connected
    /\ returned.result.readyState = CONNECTING
    /\ returned.result.readyStateText = "Connecting"

\* C20: isAuthenticated() returns, without raising, true exactly when the
\* stored item is present, parses, has a token object and a non-empty
\* token.accessToken.
C20_AuthenticatedIffToken ==
    returned.fn = "isAuthenticated" =>
        /\ ~returned.result.threw
        /\ returned.result.value <=>
              /\ userData.stored
              /\ userData.json
              /\ userData.token
              /\ userData.accessToken # ""

\* the predicate was evaluated on stored data whose access token is empty
C20_Witness ==
    /\ returned.fn = "isAuthenticated"
    /\ userData = EmptyToken
    /\ ~returned.result.value


\* C21: after a complete event the job is untracked and its channel closed,
\* whether onComplete is absent or present and whether the callback, or the
\* JSON.parse before it, returns or raises.
C21_CompleteAlwaysUntracks ==
    last.op = "complete" =>
        /\ last.job \notin DOMAIN activeConnections
        /\ last.job \notin DOMAIN eventHandlers
        /\ channels[last.chan].readyState = CLOSED


\* C22: a callback is only ever invoked for an entry that is still in place:
\* the channel an event arrives on is the one registered for its job when
\* the dispatch starts, and no callback of the entry runs later in the same
\* dispatch after the entry has been torn down (its channel closed by
\* disconnectJob or disconnectAll).
C22_NoCallbackAfterTeardown ==
    \A i \in DOMAIN calls :
        (calls[i].fn \in HandlerNames /\ calls[i].chan # 0) =>
            /\ last.job \in DOMAIN last.pre
            /\ last.pre[last.job] = calls[i].chan
            /\ calls[i].readyState = CLOSED => last.rs = CLOSED


\* C23: a terminal callback of an entry runs before the entry's teardown:
\* whenever onComplete or onError is invoked for a registered channel, the
\* registry still holds that channel for the job at that moment.
C23_TerminalCallbackBeforeTeardown ==
    \A i \in DOMAIN calls :
        (calls[i].fn \in {"onComplete", "onError"} /\ calls[i].chan # 0) =>
            calls[i].tracked


\* C24: when a terminal callback of a job re-tracks the job from inside the
\* callback, then after the handler that reported has finished the job is
\* tracked, and its only channel that is not closed is the one the re-track
\* opened.
C24_RetrackInsideCallback ==
    (\E i \in DOMAIN calls : calls[i].outcome = "retracks") =>
        /\ last.job \in DOMAIN activeConnections
        /\ activeConnections[last.job] > last.chan
        /\ NonClosed(last.job) = {activeConnections[last.job]}


\* C25: when no further track call is made and every channel that is not
\* closed eventually delivers a terminal event or fails, a registry that
\* holds jobs eventually is empty with every channel closed.
C25_EventuallyUntracked ==
    (activeConnections # EmptyMap) ~>
        (/\ activeConnections = EmptyMap
         /\ \A c \in Channels : channels[c].readyState = CLOSED)


\* C26: every channel that is not closed is the channel the registry holds
\* under its job id, so disconnectAll reaches every channel that is not
\* closed.
C26_NoOpenChannelOutsideRegistry ==
    \A c \in Channels :
        channels[c].readyState # CLOSED =>
            /\ channels[c].jobId \in DOMAIN activeConnections
            /\ activeConnections[channels[c].jobId] = c

\* one job was disconnected and its channel closed while another job's
\* channel stays registered and not closed
C26_Witness ==
    /\ last.op = "disconnectJob"
    /\ last.chan # 0
    /\ channels[last.chan].readyState = CLOSED
    /\ \E c \in Channels :
          /\ channels[c].readyState # CLOSED
          /\ c # last.chan
          /\ activeConnections[channels[c].jobId] = c


\* C27: between event handlers the registry holds no dead entry: the channel
\* registered for a job is not closed, and it is not a channel that has just
\* received a terminal event (complete, application error, transport
\* failure).
C27_NoDeadEntries ==
    /\ \A jobId \in DOMAIN activeConnections :
          channels[activeConnections[jobId]].readyState # CLOSED
    /\ last.op \in {"complete", "error", "transport_error"} =>
          ~(/\ last.job \in DOMAIN activeConnections
            /\ activeConnections[last.job] = last.chan)


\* C28: an EventSource is created only while a credential is stored; the
\* expiry reaction leaves no credential and an empty registry; and while no
\* credential is stored an empty registry stays empty, every connectToJob
\* ending in an exception.
C28_NoChannelWithoutCredential ==
    [][/\ ~(DOMAIN channels' \subseteq DOMAIN channels) => isAuthenticated(userData)
       /\ (\E i \in DOMAIN calls' : calls'[i].fn = "handleTokenExpiration") =>
             /\ ~isAuthenticated(userData')
             /\ activeConnections' = EmptyMap
       /\ (/\ ~isAuthenticated(userData)
           /\ ~isAuthenticated(userData')
           /\ activeConnections = EmptyMap) =>
             /\ activeConnections' = EmptyMap
             /\ eventHandlers' = eventHandlers
             /\ channels' = channels \/ channels' = <<>>
             /\ last'.op = "connectToJob" => last'.threw]_vars

\* after an expiry, before the redirect, a connectToJob was refused and the
\* registry is still empty
C28_Witness ==
    /\ last.op = "connectToJob"
    /\ last.threw
    /\ userData = Missing
    /\ redirectTimers > 0
    /\ activeConnections = EmptyMap
    /\ Channels # {}
    /\ \A c \in Channels : channels[c].readyState = CLOSED


\* The final outcomes ChatManager's handlers record for the job of the last
\* step: onError appends a system message and dispatches aiResponseError; an
\* onComplete that returns has appended one message and dispatched one of
\* aiResponseReceived / aiResponseError.
FinalOutcomes ==
    {i \in DOMAIN calls : /\ calls[i].job = last.job
                          /\ calls[i].fn \in {"onComplete", "onError"}
                          /\ calls[i].outcome = "returns"}

\* C29: for a job tracked with ChatManager's handlers (all four callbacks),
\* the handlers record at most one final outcome in the chat.
C29_OneFinalOutcomePerJob ==
    (last.chan # 0 /\ channels[last.chan].handlers = HandlerNames) =>
        Cardinality(FinalOutcomes) <= 1


\* C30: activeConnections and eventHandlers have the same keys, and the
\* handlers held for a job are the ones given to the connectToJob that
\* created the channel registered for the job.
C30_MapsInStep ==
    /\ DOMAIN activeConnections = DOMAIN eventHandlers
    /\ \A jobId \in DOMAIN activeConnections :
          eventHandlers[jobId] = channels[activeConnections[jobId]].handlers

\* two jobs are tracked, each with the callback set it was given
C30_Witness ==
    /\ Cardinality(DOMAIN activeConnections) = 2
    /\ \E j1, j2 \in DOMAIN eventHandlers : eventHandlers[j1] # eventHandlers[j2]
    /\ last.op \in {"connectToJob", "open"}

====
